---- MODULE Spec2Model ----
(***************************************************************************)
(* mini-slate: the editor core (createEditor.apply, getDirtyPaths, addMark) *)
(* and the path algebra (Path.transform and its helpers).                   *)
(*                                                                          *)
(* Paths are JavaScript number arrays; they are modelled as sequences of    *)
(* integers whose k-th JavaScript index is the (k+1)-th element.            *)
(***************************************************************************)
EXTENDS Integers, Sequences, FiniteSets, TLC

(***************************************************************************)
(* Bounds of the model.                                                     *)
(***************************************************************************)
\* number of editor.apply calls in one behaviour
MaxOps == 2
\* number of path references created in one behaviour
MaxRefs == 1
\* largest index and longest path drawn for Path.transform
MaxIdx == 2
MaxDepth == 2
\* the passes of the Normalizer over the dirty paths in one call
MaxPasses == 16
\* number of calls of a transform or editor method in one behaviour
MaxCalls == 1
\* number of text children of the container handed to normalizeNode
MaxKids == 3

\* a value that may be null is a sequence: empty for null, else the value
NULL == <<>>
Some(v) == <<v>>
Val(o) == o[1]

(***************************************************************************)
(* JavaScript array helpers.                                                *)
(***************************************************************************)
Max(a, b) == IF a > b THEN a ELSE b
Min(a, b) == IF a < b THEN a ELSE b

\* arr[i] with a 0-based index is undefined outside the array
Defined(arr, i) == i >= 0 /\ i < Len(arr)

\* arr.slice(0, end): a negative end counts from the end of the array
SliceTo(arr, end) ==
  LET e == IF end < 0 THEN Max(Len(arr) + end, 0) ELSE Min(end, Len(arr))
  IN  SubSeq(arr, 1, e)

\* a[i] < b[i]: any comparison with undefined is false
LessAt(a, b, i) == Defined(a, i) /\ Defined(b, i) /\ a[i + 1] < b[i + 1]

\* p[i] += d on the draft array p; an index outside the array adds a stray
\* property and leaves length and elements as they were
AddAt(p, i, d) ==
  IF Defined(p, i) THEN [p EXCEPT ![i + 1] = @ + d] ELSE p

(***************************************************************************)
(* Path algebra.                                                            *)
(***************************************************************************)
RECURSIVE compareFrom(_, _, _)
compareFrom(path, another, i) ==
  IF i >= Min(Len(path), Len(another)) THEN 0
  ELSE IF path[i + 1] < another[i + 1] THEN -1
  ELSE IF path[i + 1] > another[i + 1] THEN 1
  ELSE compareFrom(path, another, i + 1)

compare(path, another) == compareFrom(path, another, 0)

equals(path, another) ==
  /\ Len(path) = Len(another)
  /\ \A i \in 0..(Len(path) - 1) : path[i + 1] = another[i + 1]

isAncestor(path, another) ==
  Len(path) < Len(another) /\ compare(path, another) = 0

\* Path.next / Path.previous / Path.parent throw on the root path
Throws(path) == Len(path) = 0

next(path) == SliceTo(path, -1) \o <<path[Len(path)] + 1>>

previous(path) == SliceTo(path, -1) \o <<path[Len(path)] - 1>>

parent(path) == SliceTo(path, -1)

levels(path) == [i \in 1..(Len(path) + 1) |-> SliceTo(path, i - 1)]

ancestors(path) == SliceTo(levels(path), -1)

endsBefore(path, another) ==
  LET i  == Len(path) - 1
      as == SliceTo(path, i)
      bs == SliceTo(another, i)
  IN  equals(as, bs) /\ LessAt(path, another, i)

\* the affinity option: 'forward', 'backward', null, or left out
NoAffinity == "null"
DefaultAffinity == "undefined"
Affinities == {"forward", "backward", NoAffinity, DefaultAffinity}

\* const { affinity = 'forward' } = options || {}
affinityOf(a) == IF a = DefaultAffinity THEN "forward" ELSE a

\* transform with the ancestor test of remove_node left out
transformRemoveNoAncestor(path, op, affinity0) ==
  LET p == Val(path) IN
  IF path = NULL THEN NULL
  ELSE IF op.type = "remove_node" THEN
    IF equals(op.path, p) THEN NULL
    ELSE IF endsBefore(op.path, p) THEN Some(AddAt(p, Len(p) - 1, -1))
    ELSE Some(p)
  ELSE Some(p)

\* transform with the equality test of insert_node left out
transformInsertNoEquals(path, op, affinity0) ==
  LET p == Val(path) IN
  IF path = NULL THEN NULL
  ELSE IF op.type = "insert_node" THEN
    IF endsBefore(op.path, p) THEN Some(AddAt(p, Len(p) - 1, 1))
    ELSE Some(p)
  ELSE Some(p)

\* transform with split_node incrementing the last component of a later path
transformSplitLast(path, op, affinity0) ==
  LET affinity == affinityOf(affinity0)
      p == Val(path)
  IN
  IF path = NULL THEN NULL
  ELSE IF op.type = "split_node" THEN
    IF equals(op.path, p) THEN
      IF affinity = "forward" THEN Some(AddAt(p, Len(p) - 1, 1))
      ELSE IF affinity = "backward" THEN Some(p)
      ELSE NULL
    ELSE IF endsBefore(op.path, p) THEN Some(AddAt(p, Len(p) - 1, 1))
    ELSE Some(p)
  ELSE Some(p)

\* transform with insert_node shifting every path, whatever its position
transformInsertAlways(path, op, affinity0) ==
  LET p == Val(path) IN
  IF path = NULL THEN NULL
  ELSE IF op.type = "insert_node" THEN Some(AddAt(p, Len(p) - 1, 1))
  ELSE Some(p)

\* Path.transform; path and the result may be null
transform(path, op, affinity0) ==
  LET affinity == affinityOf(affinity0)
      p == Val(path)
  IN
  IF path = NULL THEN NULL
  ELSE IF op.type = "insert_node" THEN
    IF equals(op.path, p) \/ endsBefore(op.path, p)
    THEN Some(AddAt(p, Len(p) - 1, 1))
    ELSE Some(p)
  ELSE IF op.type = "remove_node" THEN
    IF equals(op.path, p) \/ isAncestor(op.path, p) THEN NULL
    ELSE IF endsBefore(op.path, p) THEN Some(AddAt(p, Len(p) - 1, -1))
    ELSE Some(p)
  ELSE IF op.type = "split_node" THEN
    IF equals(op.path, p) THEN
      IF affinity = "forward" THEN Some(AddAt(p, Len(p) - 1, 1))
      ELSE IF affinity = "backward" THEN Some(p)
      ELSE NULL
    ELSE IF endsBefore(op.path, p) THEN Some(AddAt(p, Len(op.path) - 1, 1))
    ELSE Some(p)
  ELSE IF op.type = "merge_node" THEN
    IF equals(op.path, p) \/ endsBefore(op.path, p)
    THEN Some(AddAt(p, Len(p) - 1, -1))
    ELSE Some(p)
  ELSE Some(p)

(***************************************************************************)
(* The document tree.  A node is a Text leaf (text, marks) or an Element    *)
(* (children); the editor itself is the root container.  id is a ghost      *)
(* field: it names the node a path denotes, the code has no node identity.  *)
(***************************************************************************)
TextNode(id, text, bold) ==
  [id |-> id, kind |-> "text", text |-> text, bold |-> bold, children |-> <<>>]

ElementNode(id, children) ==
  [id |-> id, kind |-> "element", text |-> <<>>, bold |-> FALSE,
   children |-> children]

Root(kids) ==
  [id |-> 0, kind |-> "editor", text |-> <<>>, bold |-> FALSE, children |-> kids]

NoNode ==
  [id |-> -1, kind |-> "none", text |-> <<>>, bold |-> FALSE, children |-> <<>>]

isText(node) == node.kind = "text"

isContainer(node) == node.kind \in {"element", "editor"}

\* Node.get: the node at a path below root, NoNode when the path does not resolve
RECURSIVE NodeGet(_, _)
NodeGet(node, path) ==
  IF path = <<>> THEN node
  ELSE IF ~isContainer(node) THEN NoNode
  ELSE IF Head(path) < 0 \/ Head(path) >= Len(node.children) THEN NoNode
  ELSE NodeGet(node.children[Head(path) + 1], Tail(path))

Has(kids, path) == NodeGet(Root(kids), path).kind # "none"

\* the paths of all nodes in the subtree of node, relative to node
RECURSIVE PathsOf(_)
PathsOf(node) ==
  {<<>>} \cup
  UNION {{<<i - 1>> \o q : q \in PathsOf(node.children[i])} :
           i \in 1..Len(node.children)}

NodePaths(kids) == PathsOf(Root(kids)) \ {<<>>}

\* the tree with the children of the container at path replaced
RECURSIVE SetChildren(_, _, _)
SetChildren(node, path, kids) ==
  IF path = <<>> THEN [node EXCEPT !.children = kids]
  ELSE [node EXCEPT
          !.children[Head(path) + 1] = SetChildren(@, Tail(path), kids)]

InsertAt(seq, i, x) == SubSeq(seq, 1, i) \o <<x>> \o SubSeq(seq, i + 1, Len(seq))

RemoveAt(seq, i) == SubSeq(seq, 1, i) \o SubSeq(seq, i + 2, Len(seq))

\* the length a split or merge position counts in: characters or children
Size(node) == IF isText(node) THEN Len(node.text) ELSE Len(node.children)

(***************************************************************************)
(* Operations.                                                              *)
(***************************************************************************)
Op(type, path, position, node, properties) ==
  [type |-> type, path |-> path, position |-> position, node |-> node,
   properties |-> properties]

InsertNodeOp(path, node) == Op("insert_node", path, 0, node, NULL)
RemoveNodeOp(path) == Op("remove_node", path, 0, NoNode, NULL)
SplitNodeOp(path, position) == Op("split_node", path, position, NoNode, NULL)
MergeNodeOp(path, position) == Op("merge_node", path, position, NoNode, NULL)
\* range is the new selection, or null
SetSelectionOp(range) == Op("set_selection", <<>>, 0, NoNode, range)
\* newProperties is one mark: its key and value
SetNodeOp(path, props) == Op("set_node", path, 0, NoNode, Some(props))
\* the inserted text travels as the text of a leaf
InsertTextOp(path, offset, text) ==
  Op("insert_text", path, offset,
     [id |-> 0, kind |-> "text", text |-> text, bold |-> FALSE,
      children |-> <<>>], NULL)

Point(path, offset) == [path |-> path, offset |-> offset]

Collapsed(point) == [anchor |-> point, focus |-> point]

\* Range.isCollapsed
isCollapsed(range) == range.anchor = range.focus

(***************************************************************************)
(* Transforms.transform: the structural effect of one operation on the      *)
(* tree.  An operation whose path does not resolve is rejected.             *)
(***************************************************************************)
LastIndex(path) == path[Len(path)]

TransformThrows(kids, op) ==
  LET root == Root(kids) IN
  CASE op.type = "insert_node" ->
         \/ op.path = <<>>
         \/ ~isContainer(NodeGet(root, parent(op.path)))
         \/ LastIndex(op.path) < 0
         \/ LastIndex(op.path) > Len(NodeGet(root, parent(op.path)).children)
    [] op.type = "remove_node" ->
         op.path = <<>> \/ ~Has(kids, op.path)
    [] op.type = "split_node" ->
         \/ op.path = <<>>
         \/ ~Has(kids, op.path)
         \/ op.position < 0
         \/ op.position > Size(NodeGet(root, op.path))
    [] op.type = "merge_node" ->
         \/ op.path = <<>>
         \/ ~Has(kids, op.path)
         \/ ~Has(kids, previous(op.path))
         \/ NodeGet(root, op.path).kind # NodeGet(root, previous(op.path)).kind
    [] op.type = "set_node" ->
         op.path = <<>> \/ ~Has(kids, op.path)
    [] op.type = "insert_text" ->
         \/ ~isText(NodeGet(root, op.path))
         \/ op.position < 0
         \/ op.position > Len(NodeGet(root, op.path).text)
    [] OTHER -> FALSE

\* the two halves of a node split at position; the right half is a new node
SplitLeft(node, position) ==
  IF isText(node)
  THEN [node EXCEPT !.text = SubSeq(node.text, 1, position)]
  ELSE [node EXCEPT !.children = SubSeq(node.children, 1, position)]

SplitRight(node, position, id) ==
  IF isText(node)
  THEN [node EXCEPT !.id = id,
                    !.text = SubSeq(node.text, position + 1, Len(node.text))]
  ELSE [node EXCEPT !.id = id,
                    !.children =
                      SubSeq(node.children, position + 1, Len(node.children))]

\* the node at the previous path after it has absorbed node
Merged(prev, node) ==
  IF isText(prev)
  THEN [prev EXCEPT !.text = prev.text \o node.text]
  ELSE [prev EXCEPT !.children = prev.children \o node.children]

\* children of the editor after a valid tree operation; id names a new node
TreeEffect(kids, op, id) ==
  LET root  == Root(kids)
      pp    == parent(op.path)
      i     == LastIndex(op.path)
      sibs  == NodeGet(root, pp).children
      node  == NodeGet(root, op.path)
      after ==
        CASE op.type = "insert_node" ->
               InsertAt(sibs, i, [op.node EXCEPT !.id = id])
          [] op.type = "remove_node" -> RemoveAt(sibs, i)
          [] op.type = "split_node" ->
               InsertAt([sibs EXCEPT ![i + 1] = SplitLeft(node, op.position)],
                        i + 1, SplitRight(node, op.position, id))
          [] op.type = "merge_node" ->
               RemoveAt([sibs EXCEPT ![i] = Merged(sibs[i], node)], i)
          [] op.type = "set_node" ->
               [sibs EXCEPT ![i + 1] = [node EXCEPT !.bold = Val(op.properties).value]]
          [] op.type = "insert_text" ->
               [sibs EXCEPT ![i + 1] =
                  [node EXCEPT !.text = SubSeq(node.text, 1, op.position)
                                        \o op.node.text
                                        \o SubSeq(node.text, op.position + 1,
                                                  Len(node.text))]]
  IN  IF op.type = "set_selection" THEN kids
      ELSE SetChildren(root, pp, after).children

SelectionEffect(sel, op) ==
  IF op.type = "set_selection" THEN op.properties ELSE sel

(***************************************************************************)
(* createEditor.getDirtyPaths and the dirty-path bookkeeping of apply.      *)
(***************************************************************************)
getDirtyPathsThrows(op) ==
  op.type \in {"split_node", "merge_node"} /\ Throws(op.path)

\* getDirtyPaths with remove_node marking the removed path itself as well
getDirtyPathsRemoveLevels(op) ==
  CASE op.type = "split_node" -> Append(levels(op.path), next(op.path))
    [] op.type \in {"insert_text", "remove_text", "set_node"} -> levels(op.path)
    [] op.type = "insert_node" -> levels(op.path)
    [] op.type = "merge_node" -> <<previous(op.path)>> \o ancestors(op.path)
    [] op.type = "remove_node" -> levels(op.path)
    [] OTHER -> <<>>

getDirtyPaths(op) ==
  CASE op.type = "split_node" -> Append(levels(op.path), next(op.path))
    [] op.type \in {"insert_text", "remove_text", "set_node"} -> levels(op.path)
    [] op.type = "insert_node" -> levels(op.path)
    [] op.type = "merge_node" -> <<previous(op.path)>> \o ancestors(op.path)
    [] op.type = "remove_node" -> ancestors(op.path)
    [] OTHER -> <<>>

\* path.join(','): the decimal components separated by commas
RECURSIVE join(_)
join(path) ==
  IF Len(path) = 0 THEN ""
  ELSE IF Len(path) = 1 THEN ToString(path[1])
  ELSE ToString(path[1]) \o "," \o join(Tail(path))

\* add without the test for a key that is already present
addNoCheck(acc, path) ==
  IF path = NULL THEN acc
  ELSE [paths |-> Append(acc.paths, Val(path)),
        keys |-> acc.keys \cup {join(Val(path))}]

\* the local function add of apply, on the pair (dirtyPaths, dirtyPathKeys)
add(acc, path) ==
  IF path = NULL THEN acc
  ELSE LET key == join(Val(path)) IN
       IF key \in acc.keys THEN acc
       ELSE [paths |-> Append(acc.paths, Val(path)),
             keys |-> acc.keys \cup {key}]

RECURSIVE addEach(_, _)
addEach(acc, paths) ==
  IF paths = <<>> THEN acc ELSE addEach(add(acc, Head(paths)), Tail(paths))

\* lines 250-278 of apply: the old dirty paths rebased, then the new ones
NewDirty(old, op) ==
  LET rebased == [i \in 1..Len(old) |->
                    transform(Some(old[i]), op, DefaultAffinity)]
      fresh   == getDirtyPaths(op)
      first   == addEach([paths |-> <<>>, keys |-> {}], rebased)
  IN  addEach(first, [i \in 1..Len(fresh) |-> Some(fresh[i])])

(***************************************************************************)
(* The editor.                                                              *)
(***************************************************************************)
VARIABLES
  children,       \* editor.children
  selection,      \* editor.selection: a range or null
  marks,          \* editor.marks: the pending mark or null
  operations,     \* editor.operations
  dirtyPaths,     \* DIRTY_PATHS.get(editor) || []
  dirtyPathKeys,  \* DIRTY_PATHS_KEYS.get(editor)
  pathRefs,       \* Editor.pathRefs(editor), in creation order
  microtasks,     \* number of queued Promise callbacks of apply
  nextId,         \* ghost: the id of the next node created
  turn,           \* ghost: the applies and notifications of the current turn
  notify,         \* ghost: what the notifications delivered
  lastCall,       \* ghost: the last call, its operation and the state before
  rebase          \* one call of Path.transform: its arguments and result

editorVars ==
  <<children, selection, marks, operations, dirtyPaths, dirtyPathKeys,
    pathRefs, microtasks, nextId, turn, notify, lastCall>>

vars == <<editorVars, rebase>>

\* documents the host assigns to editor.children before editing
DocEmpty == <<>>

DocBlocks ==
  <<ElementNode(1, <<TextNode(2, <<"a", "b">>, FALSE)>>),
    ElementNode(3, <<TextNode(4, <<"c">>, FALSE), TextNode(5, <<"d">>, TRUE)>>)>>

DocMixed ==
  <<TextNode(1, <<"a">>, FALSE), TextNode(2, <<"b">>, FALSE),
    ElementNode(3, <<TextNode(4, <<"c">>, FALSE)>>)>>

Documents == {DocEmpty, DocBlocks, DocMixed}

FirstId == 6

Snapshot ==
  [children |-> children, selection |-> selection, marks |-> marks,
   operations |-> operations, dirtyPaths |-> dirtyPaths,
   dirtyPathKeys |-> dirtyPathKeys, pathRefs |-> pathRefs]

NoOp == Op("none", <<>>, 0, NoNode, NULL)

\* the last call when it was an apply: its operation, whether it threw, and
\* the state before it
Call(kind, op, threw, pre) ==
  [kind |-> kind, op |-> op, threw |-> threw, pre |-> pre]

NoCall == Call("none", NoOp, FALSE, NULL)

\* no call of Path.transform is being looked at
NoRebase ==
  [kind |-> "none", path |-> NULL, offset |-> 0, affinity |-> DefaultAffinity,
   op |-> NoOp, done |-> FALSE, result |-> NULL]

EditorInit ==
  /\ selection = NULL
  /\ marks = NULL
  /\ operations = <<>>
  /\ dirtyPaths = <<>>
  /\ dirtyPathKeys = {}
  /\ pathRefs = <<>>
  /\ microtasks = 0
  /\ nextId = FirstId
  /\ turn = [applies |-> 0, flushed |-> 0, draining |-> FALSE, threw |-> FALSE,
             total |-> 0]
  /\ notify = [log |-> <<>>, expected |-> <<>>, since |-> <<>>, threw |-> FALSE]
  /\ lastCall = NoCall

Init ==
  /\ children \in Documents
  /\ EditorInit
  /\ rebase = NoRebase

\* a synchronous call starts a new turn once the microtask queue has drained
CanCall == ~turn.draining \/ microtasks = 0

TurnOfCall ==
  IF turn.draining
  THEN [turn EXCEPT !.applies = 0, !.flushed = 0, !.draining = FALSE,
                    !.threw = FALSE]
  ELSE turn

(***************************************************************************)
(* Editor.pathRef and PathRef.transform.                                    *)
(***************************************************************************)
RefAffinities == {"forward", "backward", NoAffinity}

\* node is a ghost field: the id of the node the reference denotes
PathRef(path, affinity, node) ==
  [current |-> Some(path), affinity |-> affinity, node |-> node]

pathRef(path, affinity) ==
  /\ CanCall
  /\ Len(pathRefs) < MaxRefs
  /\ pathRefs' = Append(pathRefs,
                        PathRef(path, affinity, NodeGet(Root(children), path).id))
  /\ turn' = TurnOfCall
  /\ lastCall' = NoCall
  /\ UNCHANGED <<children, selection, marks, operations, dirtyPaths,
                 dirtyPathKeys, microtasks, nextId, notify, rebase>>

PathRefTransform(ref, op) ==
  IF ref.current = NULL THEN ref
  ELSE [ref EXCEPT !.current = transform(ref.current, op, ref.affinity)]

\* ghost: the node a reference is meant to denote after a valid operation.
\* A split at the reference's own path hands a forward reference to the new
\* right half, a merge at its own path hands it to the absorbing node.
Denoted(ref, op, kids, id) ==
  IF ref.current = NULL THEN ref.node
  ELSE IF op.type = "split_node" /\ op.path = Val(ref.current)
          /\ affinityOf(ref.affinity) = "forward" THEN id
  ELSE IF op.type = "merge_node" /\ op.path = Val(ref.current)
       THEN NodeGet(Root(kids), previous(op.path)).id
  ELSE ref.node

(***************************************************************************)
(* createEditor.apply.                                                      *)
(***************************************************************************)
\* ghost: editor.onChange() is called; it sees editor.operations
Delivered(log) ==
  [notify EXCEPT !.log = log, !.expected = notify.since, !.since = <<>>]

apply(op) ==
  LET refs    == [i \in 1..Len(pathRefs) |-> PathRefTransform(pathRefs[i], op)]
      dirty   == NewDirty(dirtyPaths, op)
      denoted == [i \in 1..Len(pathRefs) |->
                    [refs[i] EXCEPT
                       !.node = Denoted(pathRefs[i], op, children, nextId)]]
      called  == [TurnOfCall EXCEPT !.applies = @ + 1, !.total = @ + 1]
  IN
  /\ CanCall
  /\ turn.total < MaxOps
  /\ IF getDirtyPathsThrows(op) THEN
       \* Path.next / Path.previous throws at line 307 / 324
       /\ pathRefs' = refs
       /\ turn' = [called EXCEPT !.threw = TRUE]
       /\ notify' = [notify EXCEPT !.threw = TRUE]
       /\ lastCall' = Call("apply", op, TRUE, Some(Snapshot))
       /\ UNCHANGED <<children, selection, marks, operations, dirtyPaths,
                      dirtyPathKeys, microtasks, nextId>>
     ELSE IF TransformThrows(children, op) THEN
       \* Transforms.transform throws at line 284
       /\ pathRefs' = refs
       /\ operations' = Append(operations, op)
       /\ dirtyPaths' = dirty.paths
       /\ dirtyPathKeys' = dirty.keys
       /\ turn' = [called EXCEPT !.threw = TRUE]
       /\ notify' = [notify EXCEPT !.threw = TRUE]
       /\ lastCall' = Call("apply", op, TRUE, Some(Snapshot))
       /\ UNCHANGED <<children, selection, marks, microtasks, nextId>>
     ELSE
       /\ pathRefs' = denoted
       /\ operations' = Append(operations, op)
       /\ dirtyPaths' = dirty.paths
       /\ dirtyPathKeys' = dirty.keys
       /\ children' = TreeEffect(children, op, nextId)
       /\ selection' = SelectionEffect(selection, op)
       /\ marks' = IF op.type = "set_selection" THEN NULL ELSE marks
       /\ microtasks' = microtasks + 1
       /\ nextId' = IF op.type \in {"insert_node", "split_node"}
                    THEN nextId + 1 ELSE nextId
       /\ turn' = called
       /\ notify' = [notify EXCEPT !.since = Append(@, op)]
       /\ lastCall' = Call("apply", op, FALSE, Some(Snapshot))
  /\ UNCHANGED rebase

\* the callback of Promise.resolve().then at lines 292-295
Microtask ==
  /\ microtasks > 0
  /\ microtasks' = microtasks - 1
  /\ notify' = Delivered(operations)
  /\ operations' = <<>>
  /\ turn' = [turn EXCEPT !.draining = TRUE, !.flushed = @ + 1]
  /\ lastCall' = NoCall
  /\ UNCHANGED <<children, selection, marks, dirtyPaths, dirtyPathKeys,
                 pathRefs, nextId, rebase>>

(***************************************************************************)
(* createEditor.addMark.  Every selection of this model is collapsed, so    *)
(* the Transforms.setNode branch is not taken.                              *)
(***************************************************************************)
addMark(key, value) ==
  /\ CanCall
  /\ IF selection = NULL THEN TRUE ELSE isCollapsed(Val(selection))
  /\ IF selection = NULL THEN UNCHANGED <<marks, notify>>
     ELSE /\ marks' = Some([key |-> key, value |-> value])
          /\ notify' = Delivered(operations)
  /\ turn' = TurnOfCall
  /\ lastCall' = NoCall
  /\ UNCHANGED <<children, selection, operations, dirtyPaths, dirtyPathKeys,
                 pathRefs, microtasks, nextId, rebase>>

(***************************************************************************)
(* The operations a caller submits.                                         *)
(***************************************************************************)
\* the node a caller inserts
NewNodes == {TextNode(0, <<"x">>, FALSE)}

ContainerPaths(kids) ==
  {q \in PathsOf(Root(kids)) : isContainer(NodeGet(Root(kids), q))}

\* the path of the first text leaf in document order, if there is one
RECURSIVE FirstLeaf(_)
FirstLeaf(node) ==
  IF isText(node) THEN {<<>>}
  ELSE IF Len(node.children) = 0 THEN {}
  ELSE {<<0>> \o q : q \in FirstLeaf(node.children[1])}

\* split positions drawn for a node: after its first unit and at its end
SplitPositions(node) == {k \in {1, Size(node)} : k <= Size(node)}

\* operations whose path resolves in the current tree
ValidOps(kids) ==
  LET root == Root(kids)
      tree == UNION {{InsertNodeOp(Append(c, i), n) :
                        i \in 0..Len(NodeGet(root, c).children),
                        n \in NewNodes} :
                     c \in ContainerPaths(kids)}
              \cup {RemoveNodeOp(q) : q \in NodePaths(kids)}
              \cup UNION {{SplitNodeOp(q, k) :
                             k \in SplitPositions(NodeGet(root, q))} :
                          q \in NodePaths(kids)}
              \cup {MergeNodeOp(q, Size(NodeGet(root, previous(q)))) :
                      q \in {r \in NodePaths(kids) : LastIndex(r) > 0}}
  IN  {op \in tree : ~TransformThrows(kids, op)}
      \cup {SetSelectionOp(Some(Collapsed(Point(q, 0)))) : q \in FirstLeaf(root)}
      \cup {SetSelectionOp(NULL)}

\* operations with invalid addressing: split and merge of the root, a merge
\* without a previous sibling, a removal past the end of the document
InvalidOps(kids) ==
  {SplitNodeOp(<<>>, 0), MergeNodeOp(<<>>, 0), MergeNodeOp(<<0>>, 0),
   RemoveNodeOp(<<Len(kids)>>)}

Apply == \E op \in ValidOps(children) \cup InvalidOps(children) : apply(op)

PathRefCreate ==
  \E path \in NodePaths(children), affinity \in RefAffinities :
    pathRef(path, affinity)

AddMark == addMark("bold", TRUE)

Next == Apply \/ PathRefCreate \/ AddMark \/ Microtask

Spec == Init /\ [][Next]_vars

\* apply calls only: one synchronous turn without references
SpecApply == Init /\ [][Apply]_vars

(***************************************************************************)
(* Path.transform on its own: the arguments are drawn, one step calls it.   *)
(* A point is rebased by Point.transform, which rebases its path and keeps  *)
(* its offset under insert_node.                                            *)
(***************************************************************************)
Paths == UNION {[1..n -> 0..MaxIdx] : n \in 0..MaxDepth}

OpTypes ==
  {"insert_node", "remove_node", "split_node", "merge_node", "set_node",
   "set_selection", "insert_text", "remove_text"}

\* operations by type and path; a node operation has a non-root path
PathOps == {Op(t, q, 0, NoNode, NULL) : t \in OpTypes, q \in Paths \ {<<>>}}

Rebase(kind, path, offset, affinity, op) ==
  [kind |-> kind, path |-> path, offset |-> offset, affinity |-> affinity,
   op |-> op, done |-> FALSE, result |-> NULL]

PathInit ==
  /\ children = DocEmpty
  /\ EditorInit
  /\ \/ \E path \in {NULL} \cup {Some(q) : q \in Paths},
           affinity \in Affinities, op \in PathOps :
          rebase = Rebase("path", path, 0, affinity, op)
     \/ \E q \in Paths \ {<<>>}, offset \in 0..MaxIdx,
           op \in {o \in PathOps : o.type = "insert_node"} :
          rebase = Rebase("point", Some(q), offset, DefaultAffinity, op)

PathTransform ==
  /\ rebase.kind = "path"
  /\ ~rebase.done
  /\ rebase' = [rebase EXCEPT
                  !.done = TRUE,
                  !.result = transform(rebase.path, rebase.op, rebase.affinity)]
  /\ UNCHANGED editorVars

\* Point.transform under insert_node
pointTransform(point, op, affinity) ==
  LET path == transform(Some(point.path), op, affinity)
  IN  IF op.type = "split_node" /\ equals(op.path, point.path) THEN
        \* a split of the point's own leaf: the point stays in the left half
        \* or moves to the right half with its offset recomputed
        IF op.position = point.offset /\ affinity = NoAffinity THEN NULL
        ELSE IF \/ op.position < point.offset
                \/ op.position = point.offset /\ affinityOf(affinity) = "forward"
        THEN Some(Point(Val(transform(Some(point.path), op, "forward")),
                        point.offset - op.position))
        ELSE Some(point)
      ELSE IF path = NULL THEN NULL
      ELSE Some(Point(Val(path), point.offset))

PointTransform ==
  /\ rebase.kind = "point"
  /\ ~rebase.done
  /\ rebase' = [rebase EXCEPT
                  !.done = TRUE,
                  !.result = pointTransform(Point(Val(rebase.path), rebase.offset),
                                            rebase.op, rebase.affinity)]
  /\ UNCHANGED editorVars

PathNext == PathTransform \/ PointTransform

SpecPath == PathInit /\ [][PathNext]_vars

(***************************************************************************)
(* createEditor.getDirtyPaths on its own: the operation is drawn, one step  *)
(* calls it.  Split and merge of the root throw and are left out.           *)
(***************************************************************************)
DirtyInit ==
  /\ children = DocEmpty
  /\ EditorInit
  /\ \E op \in PathOps : rebase = Rebase("dirty", NULL, 0, DefaultAffinity, op)

GetDirtyPaths ==
  /\ rebase.kind = "dirty"
  /\ ~rebase.done
  /\ ~getDirtyPathsThrows(rebase.op)
  /\ rebase' = [rebase EXCEPT !.done = TRUE,
                              !.result = getDirtyPaths(rebase.op)]
  /\ UNCHANGED editorVars

SpecDirty == DirtyInit /\ [][GetDirtyPaths]_vars

(***************************************************************************)
(* Path.transform through an operation and the operation that undoes it:    *)
(* insert_node at q then remove_node at q, split_node at q then merge_node  *)
(* at Path.next(q).  The path keeps its affinity for both calls.            *)
(***************************************************************************)
InverseOp(op) ==
  IF op.type = "insert_node" THEN Op("remove_node", op.path, 0, NoNode, NULL)
  ELSE Op("merge_node", next(op.path), 0, NoNode, NULL)

InverseInit ==
  /\ children = DocEmpty
  /\ EditorInit
  /\ \E q \in Paths, affinity \in Affinities,
        op \in {o \in PathOps : o.type \in {"insert_node", "split_node"}} :
       rebase = Rebase("path", Some(q), 0, affinity, op)

\* the second call: the result of the first through the inverse operation
InverseTransform ==
  /\ rebase.kind = "path"
  /\ rebase.done
  /\ rebase' = [rebase EXCEPT
                  !.kind = "inverse",
                  !.result = transform(rebase.result, InverseOp(rebase.op),
                                       rebase.affinity)]
  /\ UNCHANGED editorVars

InverseNext == PathTransform \/ InverseTransform

SpecInverse == InverseInit /\ [][InverseNext]_vars

(***************************************************************************)
(* The editor as a value, for the handlers that call apply several times:    *)
(* a transform is a function from the editor before to the editor after.    *)
(* threw says that an exception left the handler; applied is a ghost field,  *)
(* the operations the handler has applied so far.                           *)
(***************************************************************************)
This ==
  [children |-> children, selection |-> selection, marks |-> marks,
   operations |-> operations, dirtyPaths |-> dirtyPaths,
   dirtyPathKeys |-> dirtyPathKeys, pathRefs |-> pathRefs,
   microtasks |-> microtasks, nextId |-> nextId,
   threw |-> FALSE, applied |-> <<>>]

\* the one element of a singleton set; { f(e) : e \in {e0} } evaluates the
\* argument e0 of a handler once and names its value e
The(S) == CHOOSE x \in S : TRUE

\* an exception leaves the handler
Throw(e) == [e EXCEPT !.threw = TRUE]

\* apply that leaves the pending mark in place after a selection change
applyOnKeepMarks(e0, op) ==
  The({(
    LET refs    == [i \in 1..Len(e.pathRefs) |-> PathRefTransform(e.pathRefs[i], op)]
        dirty   == NewDirty(e.dirtyPaths, op)
        denoted == [i \in 1..Len(e.pathRefs) |->
                      [refs[i] EXCEPT
                         !.node = Denoted(e.pathRefs[i], op, e.children, e.nextId)]]
    IN
    IF e.threw THEN e
    ELSE IF getDirtyPathsThrows(op) THEN
      [e EXCEPT !.pathRefs = refs, !.threw = TRUE]
    ELSE IF TransformThrows(e.children, op) THEN
      [e EXCEPT !.pathRefs = refs,
                !.operations = Append(@, op),
                !.dirtyPaths = dirty.paths,
                !.dirtyPathKeys = dirty.keys,
                !.threw = TRUE]
    ELSE
      [e EXCEPT !.pathRefs = denoted,
                !.operations = Append(@, op),
                !.dirtyPaths = dirty.paths,
                !.dirtyPathKeys = dirty.keys,
                !.children = TreeEffect(e.children, op, e.nextId),
                !.selection = SelectionEffect(e.selection, op),
                !.microtasks = @ + 1,
                !.nextId = IF op.type \in {"insert_node", "split_node"}
                           THEN @ + 1 ELSE @,
                !.applied = Append(@, op)]
  ) : e \in {e0}})

\* createEditor.apply on the editor e; nothing runs after an exception
applyOn(e0, op) ==
  The({(
    LET refs    == [i \in 1..Len(e.pathRefs) |-> PathRefTransform(e.pathRefs[i], op)]
        dirty   == NewDirty(e.dirtyPaths, op)
        denoted == [i \in 1..Len(e.pathRefs) |->
                      [refs[i] EXCEPT
                         !.node = Denoted(e.pathRefs[i], op, e.children, e.nextId)]]
    IN
    IF e.threw THEN e
    ELSE IF getDirtyPathsThrows(op) THEN
      [e EXCEPT !.pathRefs = refs, !.threw = TRUE]
    ELSE IF TransformThrows(e.children, op) THEN
      [e EXCEPT !.pathRefs = refs,
                !.operations = Append(@, op),
                !.dirtyPaths = dirty.paths,
                !.dirtyPathKeys = dirty.keys,
                !.threw = TRUE]
    ELSE
      [e EXCEPT !.pathRefs = denoted,
                !.operations = Append(@, op),
                !.dirtyPaths = dirty.paths,
                !.dirtyPathKeys = dirty.keys,
                !.children = TreeEffect(e.children, op, e.nextId),
                !.selection = SelectionEffect(e.selection, op),
                !.marks = IF op.type = "set_selection" THEN NULL ELSE @,
                !.microtasks = @ + 1,
                !.nextId = IF op.type \in {"insert_node", "split_node"}
                           THEN @ + 1 ELSE @,
                !.applied = Append(@, op)]
  ) : e \in {e0}})

(***************************************************************************)
(* Locations and the Editor helpers the transforms call.                    *)
(***************************************************************************)
\* a Location: a Path, a Point or a Range; "null" is no location at all and
\* "undefined" an option that was left out
Loc(kind, anchor, focus) == [kind |-> kind, anchor |-> anchor, focus |-> focus]

NoLoc == Loc("null", Point(<<>>, 0), Point(<<>>, 0))
Undefined == Loc("undefined", Point(<<>>, 0), Point(<<>>, 0))
PathLoc(path) == Loc("path", Point(path, 0), Point(path, 0))
PointLoc(point) == Loc("point", point, point)
RangeLoc(range) == Loc("range", range.anchor, range.focus)

\* const { at = editor.selection } = options || {}
AtOrSelection(e, at) ==
  IF at.kind # "undefined" THEN at
  ELSE IF e.selection = NULL THEN NoLoc
  ELSE RangeLoc(Val(e.selection))

\* Editor.isEdge(editor, point, path) for the path of a leaf: the point is at
\* the start or at the end of the leaf
isEdge(e, point, path) ==
  LET node == NodeGet(Root(e.children), path)
  IN  point.offset = 0 \/ point.offset = Len(node.text)

\* the path of the last leaf at or below path
RECURSIVE LastLeaf(_, _)
LastLeaf(node, path) ==
  IF ~isContainer(node) \/ Len(node.children) = 0 THEN path
  ELSE LastLeaf(node.children[Len(node.children)],
                Append(path, Len(node.children) - 1))

\* Editor.point(editor, path, { edge: 'end' })
EndPoint(e, path) ==
  LET leaf == LastLeaf(NodeGet(Root(e.children), path), path)
  IN  Point(leaf, Len(NodeGet(Root(e.children), leaf).text))

\* Transforms.select(editor, point)
select(e0, point) ==
  The({(
    applyOn(e, SetSelectionOp(Some(Collapsed(point))))
  ) : e \in {e0}})

(***************************************************************************)
(* NodeTransforms: the callbacks handed to Editor.withoutNormalizing.        *)
(***************************************************************************)
splitNodes(e0, at) ==
  The({(
    IF isEdge(e, at, at.path) THEN e
    ELSE applyOn(e, SplitNodeOp(at.path, at.offset))
  ) : e \in {e0}})

mergeNodes(e, at, position) == applyOn(e, MergeNodeOp(at, position))

removeNode(e, at) == applyOn(e, RemoveNodeOp(at))

\* lines 64-74 of insertNode: the path the node is inserted at for a Point.
\* The path reference is registered, rebased by the split and released.
SplitPath(e0, at) ==
  The({ e2.pathRefs[Len(e2.pathRefs)].current :
        e2 \in { splitNodes(
                   [e0 EXCEPT !.pathRefs =
                      Append(@, PathRef(at.path, DefaultAffinity,
                                        NodeGet(Root(e0.children), at.path).id))],
                   at) } })

\* const { at = editor.selection } = options, a collapsed Range read as its
\* anchor (lines 49-55)
InsertLocation(e, at0) ==
  LET loc == AtOrSelection(e, at0)
  IN  IF loc.kind = "range" THEN PointLoc(loc.anchor) ELSE loc

\* lines 79-92 of insertNode: the operation and the selection of the new node
insertAt(e1, node, at, doSelect) ==
  The({ IF e2.threw \/ ~doSelect THEN e2 ELSE select(e2, EndPoint(e2, at)) :
        e2 \in { applyOn(e1, InsertNodeOp(at, node)) } })

\* insertNode with the path of a Point never moved to the next sibling
insertNodeNoNext(e0, node, at0, doSelect) ==
  The({ IF pt.kind = "null" THEN e
        ELSE The({ IF e1.threw THEN e1
                   ELSE IF path = NULL THEN Throw(e1)
                   ELSE insertAt(e1, node, Val(path), doSelect) :
                   e1   \in { IF pt.kind = "point"
                              THEN splitNodes(e, pt.anchor) ELSE e },
                   path \in { IF pt.kind = "point"
                              THEN SplitPath(e, pt.anchor)
                              ELSE Some(pt.anchor.path) } }) :
        e \in {e0}, pt \in { InsertLocation(e0, at0) } })

\* insertNode(editor, node, { select, at }) for a location that is no
\* expanded range (that branch goes through Transforms.delete)
insertNode(e0, node, at0, doSelect) ==
  The({ IF pt.kind = "null" THEN e
        ELSE The({ IF e1.threw THEN e1
                   ELSE IF path = NULL THEN Throw(e1)
                   ELSE insertAt(e1, node,
                                 IF pt.kind = "point"
                                    /\ isEdge(e, pt.anchor, pt.anchor.path)
                                 THEN next(Val(path)) ELSE Val(path),
                                 doSelect) :
                   e1   \in { IF pt.kind = "point"
                              THEN splitNodes(e, pt.anchor) ELSE e },
                   path \in { IF pt.kind = "point"
                              THEN SplitPath(e, pt.anchor)
                              ELSE Some(pt.anchor.path) } }) :
        e \in {e0}, pt \in { InsertLocation(e0, at0) } })

\* Point.isAfter
PointAfter(a, b) ==
  \/ compare(a.path, b.path) = 1
  \/ compare(a.path, b.path) = 0 /\ a.offset > b.offset

\* the operations applied between the editor e0 and the later editor e1
NewOps(e0, e1) == SubSeq(e1.applied, Len(e0.applied) + 1, Len(e1.applied))

\* RangeRef.transform with affinity 'inward', through a list of operations;
\* null once one of the two points is gone
RECURSIVE RangeThrough(_, _, _)
RangeThrough(range, ops, backward) ==
  IF range = NULL \/ ops = <<>> THEN range
  ELSE LET r == Val(range)
           a == pointTransform(r.anchor, Head(ops),
                               IF backward THEN "backward" ELSE "forward")
           f == pointTransform(r.focus, Head(ops),
                               IF backward THEN "forward" ELSE "backward")
       IN  IF a = NULL \/ f = NULL THEN NULL
           ELSE RangeThrough(Some([anchor |-> Val(a), focus |-> Val(f)]),
                             Tail(ops), backward)

\* the paths of the text leaves at or below node, in document order
RECURSIVE LeafPaths(_, _)
RECURSIVE LeafPathsFrom(_, _, _)
LeafPaths(node, path) ==
  IF isText(node) THEN <<path>> ELSE LeafPathsFrom(node, path, 1)

LeafPathsFrom(node, path, i) ==
  IF i > Len(node.children) THEN <<>>
  ELSE LeafPaths(node.children[i], Append(path, i - 1))
       \o LeafPathsFrom(node, path, i + 1)

Reverse(seq) == [i \in 1..Len(seq) |-> seq[Len(seq) + 1 - i]]

SelectSeq2(seq, from, to) ==
  SelectSeq(seq, LAMBDA q : compare(q, from) >= 0 /\ compare(q, to) <= 0)

\* Node.texts(editor, { from, to, reverse }): the paths of the text leaves
\* from one path to the other
Texts(e, from, to, reverse) ==
  LET all == LeafPaths(Root(e.children), <<>>)
  IN  IF reverse THEN Reverse(SelectSeq2(all, to, from))
      ELSE SelectSeq2(all, from, to)

\* lines 122-146 of setNode: set_node on every leaf whose mark differs
RECURSIVE setEach(_, _, _)
setEach(e0, paths, props) ==
  The({(
    IF paths = <<>> \/ e.threw THEN e
    ELSE LET textNode == NodeGet(Root(e.children), Head(paths))
         IN  IF props.value # textNode.bold
             THEN setEach(applyOn(e, SetNodeOp(Head(paths), props)),
                          Tail(paths), props)
             ELSE setEach(e, Tail(paths), props)
  ) : e \in {e0}})

\* lines 110-146 of setNode for the expanded range loc: the range reference,
\* the two splits, end first, and set_node on the leaves of the rebased range
setRange(e, loc, props) ==
  The({ IF e2.threw THEN e2
        ELSE The({ IF at = NULL THEN Throw(e2)
                   ELSE setEach(e2,
                                Texts(e2, Val(at).anchor.path, Val(at).focus.path,
                                      PointAfter(Val(at).anchor, Val(at).focus)),
                                props) :
                   at \in { RangeThrough(Some([anchor |-> loc.anchor,
                                               focus  |-> loc.focus]),
                                         NewOps(e, e2),
                                         PointAfter(loc.anchor, loc.focus)) } }) :
        e2 \in { IF PointAfter(loc.anchor, loc.focus)
                 THEN splitNodes(splitNodes(e, loc.anchor), loc.focus)
                 ELSE splitNodes(splitNodes(e, loc.focus), loc.anchor) } })

\* setNode(editor, props, { at })
setNode(e0, props, at0) ==
  The({ IF loc.kind = "null" THEN e
        ELSE IF loc.kind # "range" THEN e
        ELSE IF loc.anchor = loc.focus THEN e
        ELSE setRange(e, loc, props) :
        e \in {e0}, loc \in { AtOrSelection(e0, at0) } })

(***************************************************************************)
(* createEditor.normalizeNode, and the Normalizer that calls it.            *)
(***************************************************************************)
\* Text.equals(child, prev, { isEqualText: false }): the same marks
TextEquals(a, b) == a.bold = b.bold

\* the child of the container at index n, undefined outside its children
ChildAt(container, n) ==
  IF n >= 0 /\ n < Len(container.children) THEN container.children[n + 1]
  ELSE NoNode

\* the loop of lines 362-393: i runs over the children of the entry's node,
\* n is the index of the same child in the tree as it is now; back is what
\* n-- takes off after a merge
RECURSIVE normalizeChildren(_, _, _, _, _, _)
normalizeChildren(e0, node, path, i, n, back) ==
  The({(
    IF i >= Len(node.children) \/ e.threw THEN e
    ELSE LET currentNode == NodeGet(Root(e.children), path)
             prev        == ChildAt(currentNode, n - 1)
             child       == node.children[i + 1]
         IN  IF isText(child) /\ isText(prev) THEN
               IF TextEquals(child, prev) THEN
                 normalizeChildren(mergeNodes(e, Append(path, n), Len(prev.text)),
                                   node, path, i + 1, n - back + 1, back)
               ELSE IF child.text = <<>> THEN
                 normalizeChildren(removeNode(e, Append(path, n)),
                                   node, path, i + 1, n, back)
               ELSE normalizeChildren(e, node, path, i + 1, n + 1, back)
             ELSE normalizeChildren(e, node, path, i + 1, n + 1, back)
  ) : e \in {e0}})

\* normalizeNode without the n-- after a merge
normalizeNodeKeepN(e0, path) ==
  The({(
    LET node == NodeGet(Root(e.children), path)
    IN  IF isText(node) THEN e
        ELSE IF node.kind = "element" /\ Len(node.children) = 0
        THEN insertNode(e, TextNode(0, <<>>, FALSE), PathLoc(Append(path, 0)), TRUE)
        ELSE normalizeChildren(e, node, path, 0, 0, 0)
  ) : e \in {e0}})

\* normalizeNode without the rule for an Element that has no children
normalizeNodeNoFill(e0, path) ==
  The({(
    LET node == NodeGet(Root(e.children), path)
    IN  IF isText(node) THEN e
        ELSE normalizeChildren(e, node, path, 0, 0, 1)
  ) : e \in {e0}})

\* normalizeNode that fills an empty Element without selecting the new leaf
normalizeNodeNoSelect(e0, path) ==
  The({(
    LET node == NodeGet(Root(e.children), path)
    IN  IF isText(node) THEN e
        ELSE IF node.kind = "element" /\ Len(node.children) = 0
        THEN insertNode(e, TextNode(0, <<>>, FALSE), PathLoc(Append(path, 0)), FALSE)
        ELSE normalizeChildren(e, node, path, 0, 0, 1)
  ) : e \in {e0}})

\* normalizeNode([node, path]), called by the Normalizer: the transforms it
\* calls are nested in the Normalizer's scope and only apply operations
normalizeNode(e0, path) ==
  The({(
    LET node == NodeGet(Root(e.children), path)
    IN  IF isText(node) THEN e
        ELSE IF node.kind = "element" /\ Len(node.children) = 0
        THEN insertNode(e, TextNode(0, <<>>, FALSE), PathLoc(Append(path, 0)), TRUE)
        ELSE normalizeChildren(e, node, path, 0, 0, 1)
  ) : e \in {e0}})

\* Editor.normalize: the dirty paths are taken one at a time from the end, a
\* path that is gone is skipped, until none is left
RECURSIVE normalize(_, _)
normalize(e0, passes) ==
  The({(
    IF e.threw \/ e.dirtyPaths = <<>> \/ passes = 0 THEN e
    ELSE LET path == e.dirtyPaths[Len(e.dirtyPaths)]
             e1   == [e EXCEPT !.dirtyPaths = SubSeq(@, 1, Len(@) - 1),
                               !.dirtyPathKeys = @ \ {join(path)}]
         IN  IF Has(e1.children, path)
             THEN normalize(normalizeNode(e1, path), passes - 1)
             ELSE normalize(e1, passes - 1)
  ) : e \in {e0}})

\* Editor.withoutNormalizing(editor, fn), outermost scope: e is the editor
\* after fn; the Normalizer runs when the scope closes
withoutNormalizing(e) == normalize(e, MaxPasses)

(***************************************************************************)
(* createEditor.insertText and the addMark branch of an expanded selection. *)
(***************************************************************************)
\* Transforms.insertText(editor, text) at a collapsed selection
TransformsInsertText(e, text) ==
  withoutNormalizing(
    applyOn(e, InsertTextOp(Val(e.selection).anchor.path,
                            Val(e.selection).anchor.offset, text)))

\* lines 199-204 of insertText: the branch on the pending mark
insertMarked(e, text) ==
  IF e.marks # NULL
  THEN withoutNormalizing(
         insertNode(e, TextNode(0, text, Val(e.marks).value), Undefined, TRUE))
  ELSE TransformsInsertText(e, text)

\* editor.insertText(text), for a selection that is null or collapsed
insertText(e0, text) ==
  The({ IF e.selection = NULL THEN e
        ELSE The({ IF e1.threw THEN e1 ELSE [e1 EXCEPT !.marks = NULL] :
                   e1 \in { insertMarked(e, text) } }) :
        e \in {e0} })

\* the state after a handler that takes the editor from This to e
Args(at, node, props, doSelect) ==
  [at |-> at, node |-> node, props |-> props, doSelect |-> doSelect]

NoArgs == Args(NoLoc, NoNode, NULL, FALSE)

TransformCall(kind, args, e) ==
  [kind |-> kind, op |-> NoOp, threw |-> e.threw, pre |-> Some(Snapshot),
   args |-> args, applied |-> e.applied]

Commit(e0, kind, args) ==
  /\ CanCall
  /\ turn.total < MaxCalls
  /\ \E e \in {e0} :
       /\ children' = e.children
       /\ selection' = e.selection
       /\ marks' = e.marks
       /\ operations' = e.operations
       /\ dirtyPaths' = e.dirtyPaths
       /\ dirtyPathKeys' = e.dirtyPathKeys
       /\ pathRefs' = e.pathRefs
       /\ microtasks' = e.microtasks
       /\ nextId' = e.nextId
       /\ turn' = [TurnOfCall EXCEPT !.applies = @ + Len(e.applied),
                                     !.total = @ + 1,
                                     !.threw = @ \/ e.threw]
       /\ notify' = [notify EXCEPT !.since = @ \o e.applied,
                                   !.threw = @ \/ e.threw]
       /\ lastCall' = TransformCall(kind, args, e)
  /\ UNCHANGED rebase

\* addMark(key, value) with an expanded selection: Transforms.setNode
addMarkExpanded(key, value) ==
  /\ selection # NULL
  /\ IF selection = NULL THEN FALSE ELSE ~isCollapsed(Val(selection))
  /\ Commit(withoutNormalizing(
              setNode(This, [key |-> key, value |-> value], Undefined)),
            "addMark", Args(Undefined, NoNode,
                            Some([key |-> key, value |-> value]), FALSE))

(***************************************************************************)
(* normalizeNode on its own: the container is drawn, one step normalizes    *)
(* it.  The container is the root or an Element; its children are text      *)
(* leaves as a caller's insert_node operations leave them.                  *)
(***************************************************************************)
LeafTexts == {<<>>, <<"a">>, <<"b">>}

Rows == UNION {[1..k -> LeafTexts \X BOOLEAN] : k \in 0..MaxKids}

\* the leaves of a row, numbered from first
RowLeaves(row, first) ==
  [i \in 1..Len(row) |-> TextNode(first + i - 1, row[i][1], row[i][2])]

NormalizeInit ==
  /\ \E row \in Rows :
        \/ children = RowLeaves(row, 1)
        \/ children = <<ElementNode(1, RowLeaves(row, 2))>>
  /\ EditorInit
  /\ rebase = NoRebase

NormalizeNode ==
  /\ lastCall.kind = "none"
  /\ \E path \in ContainerPaths(children) :
        Commit(normalizeNode(This, path), "normalizeNode",
               Args(PathLoc(path), NoNode, NULL, FALSE))

SpecNormalize == NormalizeInit /\ [][NormalizeNode]_vars

(***************************************************************************)
(* The transforms and editor methods a caller uses.  Each call runs in its  *)
(* own batch scope, so the Normalizer has run when it returns.  The host    *)
(* has set a document and a selection before the first call.                *)
(***************************************************************************)
\* the points of the text leaves of the document
Points(kids) ==
  UNION {{Point(q, k) : k \in 0..Len(NodeGet(Root(kids), q).text)} :
           q \in {r \in NodePaths(kids) : isText(NodeGet(Root(kids), r))}}

\* the selections drawn: none, a caret, or a range inside one parent
Selections(kids) ==
  {NULL}
  \cup {Some(Collapsed(pt)) : pt \in Points(kids)}
  \cup UNION {{Some([anchor |-> a, focus |-> f]) :
                  f \in {g \in Points(kids) :
                           g # a /\ parent(g.path) = parent(a.path)}} :
               a \in Points(kids)}

\* the paths a node can be inserted at
InsertPaths(kids) ==
  UNION {{Append(c, i) : i \in 0..Len(NodeGet(Root(kids), c).children)} :
           c \in ContainerPaths(kids)}

TransformsInit ==
  /\ children \in Documents
  /\ selection \in Selections(children)
  /\ marks = NULL
  /\ operations = <<>>
  /\ dirtyPaths = <<>>
  /\ dirtyPathKeys = {}
  /\ pathRefs = <<>>
  /\ microtasks = 0
  /\ nextId = FirstId
  /\ turn = [applies |-> 0, flushed |-> 0, draining |-> FALSE, threw |-> FALSE,
             total |-> 0]
  /\ notify = [log |-> <<>>, expected |-> <<>>, since |-> <<>>, threw |-> FALSE]
  /\ lastCall = NoCall
  /\ rebase = NoRebase

InsertNode ==
  \E at \in {Undefined} \cup {PointLoc(pt) : pt \in Points(children)}
             \cup {PathLoc(q) : q \in InsertPaths(children)},
     doSelect \in BOOLEAN, node \in NewNodes :
    /\ at = Undefined =>
         IF selection = NULL THEN TRUE ELSE isCollapsed(Val(selection))
    /\ Commit(withoutNormalizing(insertNode(This, node, at, doSelect)),
              "insertNode", Args(at, node, NULL, doSelect))

SplitNodes ==
  \E pt \in Points(children) :
    Commit(withoutNormalizing(splitNodes(This, pt)),
           "splitNodes", Args(PointLoc(pt), NoNode, NULL, FALSE))

SetNode ==
  \E at \in {Undefined} \cup {RangeLoc(Collapsed(pt)) : pt \in Points(children)},
     value \in BOOLEAN :
    Commit(withoutNormalizing(
             setNode(This, [key |-> "bold", value |-> value], at)),
           "setNode",
           Args(at, NoNode, Some([key |-> "bold", value |-> value]), FALSE))

MergeNodes ==
  \E q \in {r \in NodePaths(children) : LastIndex(r) > 0} :
    /\ ~TransformThrows(children,
                        MergeNodeOp(q, Size(NodeGet(Root(children), previous(q)))))
    /\ Commit(withoutNormalizing(
                mergeNodes(This, q, Size(NodeGet(Root(children), previous(q))))),
              "mergeNodes", Args(PathLoc(q), NoNode, NULL, FALSE))

RemoveNode ==
  \E q \in NodePaths(children) :
    Commit(withoutNormalizing(removeNode(This, q)),
           "removeNode", Args(PathLoc(q), NoNode, NULL, FALSE))

InsertText ==
  /\ IF selection = NULL THEN TRUE ELSE isCollapsed(Val(selection))
  /\ Commit(insertText(This, <<"x">>), "insertText", NoArgs)

AddMarkExpanded == addMarkExpanded("bold", TRUE)

TransformsNext ==
  \/ InsertNode
  \/ SplitNodes
  \/ SetNode
  \/ MergeNodes
  \/ RemoveNode
  \/ InsertText
  \/ AddMark
  \/ AddMarkExpanded

SpecTransforms == TransformsInit /\ [][TransformsNext]_vars

(***************************************************************************)
(* The transforms after a caller's bare apply: apply leaves its dirty       *)
(* paths pending, and the scope of the next transform closes over them.     *)
(* Init is the editor after one valid tree operation on a drawn document;   *)
(* turn.total counts the transform calls from there on.                     *)
(***************************************************************************)
\* the editor created with the children kids and the selection sel
Created(kids, sel) ==
  [children |-> kids, selection |-> sel, marks |-> NULL,
   operations |-> <<>>, dirtyPaths |-> <<>>, dirtyPathKeys |-> {},
   pathRefs |-> <<>>, microtasks |-> 0, nextId |-> FirstId,
   threw |-> FALSE, applied |-> <<>>]

\* the tree operations a caller applies
TreeOps(kids) == {op \in ValidOps(kids) : op.type # "set_selection"}

AfterBareApply ==
  \E e \in UNION {{applyOn(Created(kids, sel), op) :
                     sel \in {NULL} \cup {Some(Collapsed(pt)) : pt \in Points(kids)},
                     op \in TreeOps(kids)} :
                  kids \in Documents} :
    /\ children = e.children
    /\ selection = e.selection
    /\ marks = e.marks
    /\ operations = e.operations
    /\ dirtyPaths = e.dirtyPaths
    /\ dirtyPathKeys = e.dirtyPathKeys
    /\ pathRefs = e.pathRefs
    /\ microtasks = e.microtasks
    /\ nextId = e.nextId
    /\ turn = [applies |-> 1, flushed |-> 0, draining |-> FALSE,
               threw |-> FALSE, total |-> 0]
    /\ notify = [log |-> <<>>, expected |-> <<>>, since |-> e.applied,
                 threw |-> FALSE]
    /\ lastCall = NoCall
    /\ rebase = NoRebase

PendingNext == SplitNodes \/ SetNode

SpecPending == AfterBareApply /\ [][PendingNext]_vars

(***************************************************************************)
(* normalizeNode with a selection and a pending mark in place: the          *)
(* document is a leaf followed by an Element over a drawn row, the caret,   *)
(* if any, is in a text leaf, and a mark is pending only with a caret.      *)
(***************************************************************************)
FillInit ==
  /\ \E row \in Rows :
       children = <<TextNode(1, <<"a">>, FALSE), ElementNode(2, RowLeaves(row, 3))>>
  /\ selection \in {NULL} \cup {Some(Collapsed(pt)) : pt \in Points(children)}
  /\ marks \in {NULL} \cup {Some([key |-> "bold", value |-> TRUE]) : x \in
                              {y \in {selection} : y # NULL}}
  /\ operations = <<>>
  /\ dirtyPaths = <<>>
  /\ dirtyPathKeys = {}
  /\ pathRefs = <<>>
  /\ microtasks = 0
  /\ nextId = FirstId
  /\ turn = [applies |-> 0, flushed |-> 0, draining |-> FALSE, threw |-> FALSE,
             total |-> 0]
  /\ notify = [log |-> <<>>, expected |-> <<>>, since |-> <<>>, threw |-> FALSE]
  /\ lastCall = NoCall
  /\ rebase = NoRebase

SpecFill == FillInit /\ [][NormalizeNode]_vars

(***************************************************************************)
(* Path relations the properties are stated in, independent of the code's   *)
(* helpers.                                                                 *)
(***************************************************************************)
IsPrefix(a, b) == Len(a) <= Len(b) /\ SubSeq(b, 1, Len(a)) = a

Front(a) == SubSeq(a, 1, Len(a) - 1)

IncAt(p, k) == [p EXCEPT ![k] = @ + 1]

DecAt(p, k) == [p EXCEPT ![k] = @ - 1]

\* a and b are siblings
Siblings(a, b) == Len(a) >= 1 /\ Len(a) = Len(b) /\ Front(a) = Front(b)

\* a is an earlier sibling of b or of one of b's ancestors
BeforeAtDepth(a, b) ==
  /\ Len(a) >= 1
  /\ Len(b) >= Len(a)
  /\ Front(a) = SubSeq(b, 1, Len(a) - 1)
  /\ a[Len(a)] < b[Len(a)]

(***************************************************************************)
(* C3: a path equal to or below the path of a remove_node is rebased to     *)
(* null by that operation, and a null path is rebased to null by every      *)
(* operation of any type.                                                   *)
(***************************************************************************)
C3_RemovedStaysNull ==
  (rebase.kind = "path" /\ rebase.done) =>
    /\ rebase.path = NULL => rebase.result = NULL
    /\ (/\ rebase.path # NULL
        /\ rebase.op.type = "remove_node"
        /\ IsPrefix(rebase.op.path, Val(rebase.path))) => rebase.result = NULL

C3_Witness ==
  /\ rebase.kind = "path"
  /\ rebase.done
  /\ rebase.path = Some(<<0, 0>>)
  /\ rebase.op.type = "remove_node"
  /\ rebase.op.path = <<0>>
  /\ rebase.result = NULL

(***************************************************************************)
(* C4: under insert_node at ip, a path equal to ip, or a sibling of ip with *)
(* an index not below ip's, gets its last component incremented and keeps   *)
(* the others; a point keeps its offset as well.                            *)
(***************************************************************************)
C4_InsertShiftsSibling ==
  (/\ rebase.done
   /\ rebase.path # NULL
   /\ rebase.op.type = "insert_node"
   /\ Siblings(rebase.op.path, Val(rebase.path))
   /\ rebase.op.path[Len(rebase.op.path)] <= Val(rebase.path)[Len(Val(rebase.path))])
  =>
    LET p == Val(rebase.path) IN
    IF rebase.kind = "path"
    THEN rebase.result = Some(IncAt(p, Len(p)))
    ELSE rebase.result = Some(Point(IncAt(p, Len(p)), rebase.offset))

C4_Witness ==
  /\ rebase.kind = "point"
  /\ rebase.done
  /\ rebase.path = Some(<<1>>)
  /\ rebase.offset = 1
  /\ rebase.op.type = "insert_node"
  /\ rebase.op.path = <<0>>
  /\ rebase.result = Some(Point(<<2>>, 1))

(***************************************************************************)
(* C6: under split_node at sp, a path equal to sp gets its last component   *)
(* incremented with forward affinity (the default), is unchanged with       *)
(* backward affinity and becomes null with affinity null; a different path  *)
(* that sp ends before gets the component at sp's depth incremented.        *)
(***************************************************************************)
C6_SplitByAffinity ==
  (/\ rebase.kind = "path"
   /\ rebase.done
   /\ rebase.path # NULL
   /\ rebase.op.type = "split_node")
  =>
    LET p  == Val(rebase.path)
        sp == rebase.op.path
    IN  /\ (p = sp /\ rebase.affinity = "forward") =>
              rebase.result = Some(IncAt(p, Len(p)))
        /\ (p = sp /\ rebase.affinity = "backward") => rebase.result = Some(p)
        /\ (p = sp /\ rebase.affinity = NoAffinity) => rebase.result = NULL
        /\ (p # sp /\ BeforeAtDepth(sp, p)) =>
              rebase.result = Some(IncAt(p, Len(sp)))

C6_Witness ==
  /\ rebase.kind = "path"
  /\ rebase.done
  /\ rebase.path = Some(<<1, 2>>)
  /\ rebase.op.type = "split_node"
  /\ rebase.op.path = <<0>>
  /\ rebase.result = Some(<<2, 2>>)

(***************************************************************************)
(* Properties of the editor.                                                *)
(***************************************************************************)
Pre == Val(lastCall.pre)

AfterApply == lastCall.kind = "apply"

\* an Element has a child, and no two adjacent text children have equal marks
NormalContainer(node) ==
  /\ node.kind = "element" => Len(node.children) > 0
  /\ \A i \in 1..(Len(node.children) - 1) :
       ~(/\ isText(node.children[i])
         /\ isText(node.children[i + 1])
         /\ node.children[i].bold = node.children[i + 1].bold)

(***************************************************************************)
(* C1: after any sequence of valid operations, every path reference is      *)
(* null or denotes the node it denoted when it was created.                 *)
(***************************************************************************)
C1_RefsDenoteTheirNode ==
  ~notify.threw =>
    \A i \in 1..Len(pathRefs) :
      \/ pathRefs[i].current = NULL
      \/ NodeGet(Root(children), Val(pathRefs[i].current)).id = pathRefs[i].node

(***************************************************************************)
(* C2: when the microtask queue has drained after a turn with at least one  *)
(* apply call, onChange has been invoked exactly once for that turn.        *)
(***************************************************************************)
C2_OneNotificationPerTurn ==
  (turn.draining /\ microtasks = 0 /\ turn.applies >= 1 /\ ~turn.threw) =>
    turn.flushed = 1

(***************************************************************************)
(* C5: under merge_node at mp, a path equal to mp or one that mp ends       *)
(* before gets its last component decremented and then denotes the node     *)
(* that absorbed the merged node (for mp itself) or the node it denoted     *)
(* before; every other path is unchanged.                                   *)
(***************************************************************************)
C5_MergeShifts ==
  (AfterApply /\ ~lastCall.threw /\ lastCall.op.type = "merge_node") =>
    \A i \in 1..Len(Pre.pathRefs) :
      Pre.pathRefs[i].current # NULL =>
        LET p  == Val(Pre.pathRefs[i].current)
            mp == lastCall.op.path
        IN  IF p = mp \/ BeforeAtDepth(mp, p)
            THEN /\ pathRefs[i].current = Some(DecAt(p, Len(p)))
                 /\ NodeGet(Root(children), DecAt(p, Len(p))).id
                      = pathRefs[i].node
            ELSE pathRefs[i].current = Some(p)

(***************************************************************************)
(* C7: every change notification sees in editor.operations exactly the      *)
(* operations applied since the previous notification, in order.            *)
(***************************************************************************)
C7_NotificationSeesBatch == ~notify.threw => notify.log = notify.expected

(***************************************************************************)
(* C8: when an apply made outside any batch scope returns, the dirty-path   *)
(* set has been drained and the containers the operation made dirty are in  *)
(* normal form.                                                             *)
(***************************************************************************)
C8_ApplyNormalizes ==
  (AfterApply /\ ~lastCall.threw) =>
    /\ dirtyPaths = <<>>
    /\ \A i \in 1..Len(getDirtyPaths(lastCall.op)) :
         LET node == NodeGet(Root(children), getDirtyPaths(lastCall.op)[i])
         IN  isContainer(node) => NormalContainer(node)

(***************************************************************************)
(* C9: an apply that fails because of invalid addressing leaves children,   *)
(* selection, the references, the dirty paths and the log as they were.     *)
(***************************************************************************)
C9_FailedApplyChangesNothing ==
  (AfterApply /\ lastCall.threw) =>
    /\ children = Pre.children
    /\ selection = Pre.selection
    /\ pathRefs = Pre.pathRefs
    /\ dirtyPaths = Pre.dirtyPaths
    /\ dirtyPathKeys = Pre.dirtyPathKeys
    /\ operations = Pre.operations

(***************************************************************************)
(* C10: after an apply, the dirty paths are the old ones rebased through    *)
(* the operation (null results dropped) followed by the new ones, each path *)
(* kept once at its first place, and the key set holds exactly their keys.  *)
(***************************************************************************)
RECURSIVE Rebased(_, _)
Rebased(old, op) ==
  IF Len(old) = 0 THEN <<>>
  ELSE LET t == transform(Some(Head(old)), op, DefaultAffinity)
       IN  (IF t = NULL THEN <<>> ELSE <<Val(t)>>) \o Rebased(Tail(old), op)

RECURSIVE FirstOccurrences(_)
FirstOccurrences(seq) ==
  IF Len(seq) = 0 THEN <<>>
  ELSE LET rest == FirstOccurrences(Front(seq))
           x    == seq[Len(seq)]
       IN  IF \E i \in 1..Len(rest) : rest[i] = x THEN rest
           ELSE Append(rest, x)

C10_DirtyPathsRebased ==
  (AfterApply /\ ~getDirtyPathsThrows(lastCall.op)) =>
    LET all == Rebased(Pre.dirtyPaths, lastCall.op)
                 \o getDirtyPaths(lastCall.op)
    IN  /\ dirtyPaths = FirstOccurrences(all)
        /\ \A i, j \in 1..Len(dirtyPaths) :
             i # j => dirtyPaths[i] # dirtyPaths[j]
        /\ dirtyPathKeys = {join(dirtyPaths[i]) : i \in 1..Len(dirtyPaths)}

C10_Witness ==
  /\ AfterApply
  /\ ~lastCall.threw
  /\ Len(Pre.dirtyPaths) > 0
  /\ Len(dirtyPaths)
       < Len(Rebased(Pre.dirtyPaths, lastCall.op)) + Len(getDirtyPaths(lastCall.op))
  /\ Len(Rebased(Pre.dirtyPaths, lastCall.op)) < Len(Pre.dirtyPaths)
  /\ \E i \in 1..Len(Pre.dirtyPaths) :
       LET t == transform(Some(Pre.dirtyPaths[i]), lastCall.op, DefaultAffinity)
       IN  t # NULL /\ Val(t) # Pre.dirtyPaths[i]

(***************************************************************************)
(* C11: getDirtyPaths returns, each path once, the path and all its         *)
(* ancestors plus the next sibling for split_node; the path and all its     *)
(* ancestors for insert_node, insert_text, remove_text and set_node; the    *)
(* strict ancestors plus the previous sibling for merge_node; the strict    *)
(* ancestors for remove_node; nothing for set_selection.                    *)
(***************************************************************************)
Range(seq) == {seq[i] : i \in 1..Len(seq)}

Levels(path) == {SubSeq(path, 1, k) : k \in 0..Len(path)}

StrictAncestors(path) == {SubSeq(path, 1, k) : k \in 0..(Len(path) - 1)}

ExpectedDirty(op) ==
  CASE op.type = "split_node" ->
         Levels(op.path) \cup {IncAt(op.path, Len(op.path))}
    [] op.type \in {"insert_node", "insert_text", "remove_text", "set_node"} ->
         Levels(op.path)
    [] op.type = "merge_node" ->
         StrictAncestors(op.path) \cup {DecAt(op.path, Len(op.path))}
    [] op.type = "remove_node" -> StrictAncestors(op.path)
    [] OTHER -> {}

C11_DirtyPathsOfOperation ==
  (rebase.kind = "dirty" /\ rebase.done) =>
    /\ Range(rebase.result) = ExpectedDirty(rebase.op)
    /\ Len(rebase.result) = Cardinality(ExpectedDirty(rebase.op))

C11_Witness ==
  /\ rebase.kind = "dirty"
  /\ rebase.done
  /\ rebase.op.type = "remove_node"
  /\ rebase.op.path = <<1, 2>>
  /\ rebase.result = <<<<>>, <<1>>>>

(***************************************************************************)
(* C18: Path.transform returns its input path for every set_node,           *)
(* set_selection, insert_text and remove_text operation, and for every      *)
(* insert_node, remove_node, split_node and merge_node whose path is not    *)
(* the input path, not an ancestor of it, and not an earlier sibling of it  *)
(* or of one of its ancestors.                                              *)
(***************************************************************************)
Touches(q, p) == q = p \/ IsPrefix(q, p) \/ BeforeAtDepth(q, p)

C18_UntouchedPathUnchanged ==
  (/\ rebase.kind = "path"
   /\ rebase.done
   /\ rebase.path # NULL
   /\ \/ rebase.op.type \in
           {"set_node", "set_selection", "insert_text", "remove_text"}
      \/ ~Touches(rebase.op.path, Val(rebase.path)))
  => rebase.result = rebase.path

C18_Witness ==
  /\ rebase.kind = "path"
  /\ rebase.done
  /\ rebase.path = Some(<<0, 1>>)
  /\ rebase.op.type = "insert_node"
  /\ rebase.op.path = <<1>>
  /\ rebase.result = Some(<<0, 1>>)

(***************************************************************************)
(* C19: Path.endsBefore(a, b) is true exactly when a and b are siblings and *)
(* a's last index is smaller than b's; it is false when b is longer or      *)
(* shorter than a.  (a is the path of the operation, b the rebased path.)   *)
(***************************************************************************)
C19_EndsBeforeIffSiblings ==
  (rebase.kind = "path" /\ rebase.done /\ rebase.path # NULL) =>
    LET a == rebase.op.path
        b == Val(rebase.path)
    IN  endsBefore(a, b) <=> (Siblings(a, b) /\ a[Len(a)] < b[Len(b)])

(***************************************************************************)
(* C12: normalizeNode on a container of text leaves returns without an      *)
(* exception, and afterwards no two                                         *)
(* adjacent text children have equal marks; the text of the children, read  *)
(* in order, is what it was; and every merge_node it applied has as its     *)
(* position the length of the earlier leaf at that moment.                  *)
(***************************************************************************)
AfterNormalizeNode == lastCall.kind = "normalizeNode" /\ ~lastCall.threw

\* the container normalizeNode was called on, before and after the call
NormalizedPath == lastCall.args.at.anchor.path

RECURSIVE Flat(_)
Flat(kids) == IF kids = <<>> THEN <<>> ELSE Head(kids).text \o Flat(Tail(kids))

\* the tree before the k-th of the operations applied to kids
RECURSIVE TreeBefore(_, _, _, _)
TreeBefore(kids, ops, k, id) ==
  IF k = 1 THEN kids
  ELSE TreeBefore(TreeEffect(kids, Head(ops), id), Tail(ops), k - 1, id + 1)

C12_AdjacentEqualLeavesMerged ==
  lastCall.kind = "normalizeNode" =>
    LET before == NodeGet(Root(Pre.children), NormalizedPath)
        after  == NodeGet(Root(children), NormalizedPath)
        ops    == lastCall.applied
    IN  /\ ~lastCall.threw
        /\ \A i \in 1..(Len(after.children) - 1) :
             ~(/\ isText(after.children[i])
               /\ isText(after.children[i + 1])
               /\ after.children[i].bold = after.children[i + 1].bold)
        /\ Flat(after.children) = Flat(before.children)
        /\ \A k \in 1..Len(ops) :
             ops[k].type = "merge_node" =>
               ops[k].position =
                 Len(NodeGet(Root(TreeBefore(Pre.children, ops, k, FirstId)),
                             previous(ops[k].path)).text)

\* the mark-free chain [a, b, a] has become one leaf "aba"
C12_Witness ==
  /\ AfterNormalizeNode
  /\ NormalizedPath = <<>>
  /\ Len(Pre.children) = 3
  /\ Flat(Pre.children) = <<"a", "b", "a">>
  /\ \A i \in 1..3 : ~Pre.children[i].bold
  /\ Len(children) = 1
  /\ children[1].text = <<"a", "b", "a">>

(***************************************************************************)
(* C20: after normalizeNode has run on a container, no empty text leaf is   *)
(* left next to another text leaf among its children, whether it is the     *)
(* earlier or the later of the two and whatever their marks.                *)
(***************************************************************************)
C20_NoBlankLeafBesideLeaf ==
  AfterNormalizeNode =>
    LET after == NodeGet(Root(children), NormalizedPath)
    IN  \A i \in 1..(Len(after.children) - 1) :
          (isText(after.children[i]) /\ isText(after.children[i + 1])) =>
            /\ after.children[i].text # <<>>
            /\ after.children[i + 1].text # <<>>

(***************************************************************************)
(* C13: after a transform and the normalization that closes it, every      *)
(* Element has at least one child; an Element whose sole child was taken    *)
(* by removeNode has exactly one child, an empty text leaf at index 0.      *)
(***************************************************************************)
TransformKinds ==
  {"insertNode", "splitNodes", "setNode", "mergeNodes", "removeNode",
   "insertText", "addMark"}

\* a transform has returned and the Normalizer has emptied the dirty paths
Normalized ==
  lastCall.kind \in TransformKinds /\ ~lastCall.threw /\ dirtyPaths = <<>>

\* the path handed to the last transform
CallPath == lastCall.args.at.anchor.path

\* removeNode took the sole child of an Element
RemovedSoleChild ==
  /\ lastCall.kind = "removeNode"
  /\ Len(CallPath) >= 2
  /\ NodeGet(Root(Pre.children), parent(CallPath)).kind = "element"
  /\ Len(NodeGet(Root(Pre.children), parent(CallPath)).children) = 1

\* the children the emptied Element has now; the ghost id finds it wherever
\* the merges of the Normalizer have moved it
EmptiedNow ==
  {NodeGet(Root(children), q).children :
     q \in {r \in NodePaths(children) :
              NodeGet(Root(children), r).id =
                NodeGet(Root(Pre.children), parent(CallPath)).id}}

C13_ElementsKeepAChild ==
  Normalized =>
    /\ \A q \in NodePaths(children) :
         NodeGet(Root(children), q).kind = "element" =>
           Len(NodeGet(Root(children), q).children) >= 1
    /\ RemovedSoleChild =>
         /\ EmptiedNow # {}
         /\ \A kids \in EmptiedNow :
              /\ Len(kids) = 1
              /\ isText(kids[1])
              /\ kids[1].text = <<>>

C13_Witness ==
  /\ Normalized
  /\ RemovedSoleChild
  /\ \E kids \in EmptiedNow : Len(kids) = 1 /\ kids[1].text = <<>>

(***************************************************************************)
(* C14: insertNode at a Point, or with a collapsed selection and no         *)
(* location, puts the node between the two halves of the leaf: the text of  *)
(* the document is the text before the point, the text of the node, the     *)
(* text after the point, for every offset from 0 to the length of the leaf. *)
(***************************************************************************)
\* the text of the leaves at paths, in that order
RECURSIVE FlatAt(_, _)
FlatAt(kids, paths) ==
  IF paths = <<>> THEN <<>>
  ELSE NodeGet(Root(kids), Head(paths)).text \o FlatAt(kids, Tail(paths))

DocText(kids) == FlatAt(kids, LeafPaths(Root(kids), <<>>))

TextBefore(kids, pt) ==
  FlatAt(kids, SelectSeq(LeafPaths(Root(kids), <<>>),
                         LAMBDA q : compare(q, pt.path) = -1))
  \o SubSeq(NodeGet(Root(kids), pt.path).text, 1, pt.offset)

TextAfter(kids, pt) ==
  SubSeq(NodeGet(Root(kids), pt.path).text, pt.offset + 1,
         Len(NodeGet(Root(kids), pt.path).text))
  \o FlatAt(kids, SelectSeq(LeafPaths(Root(kids), <<>>),
                            LAMBDA q : compare(q, pt.path) = 1))

\* insertNode has returned and its location was a Point
InsertedAtPoint ==
  /\ lastCall.kind = "insertNode"
  /\ ~lastCall.threw
  /\ \/ lastCall.args.at.kind = "point"
     \/ lastCall.args.at.kind = "undefined" /\ Pre.selection # NULL

\* the Point of the call
InsertPoint ==
  IF lastCall.args.at.kind = "point" THEN lastCall.args.at.anchor
  ELSE Val(Pre.selection).anchor

C14_InsertedBetweenHalves ==
  InsertedAtPoint =>
    DocText(children) =
      TextBefore(Pre.children, InsertPoint) \o lastCall.args.node.text
      \o TextAfter(Pre.children, InsertPoint)

(***************************************************************************)
(* C15: in insertNode at a Point, the path of the insert_node operation     *)
(* follows from the path the path reference gives after splitNodes.         *)
(***************************************************************************)
\* the Point of the call was at the start or at the end of its leaf
AtEdge ==
  \/ InsertPoint.offset = 0
  \/ InsertPoint.offset = Len(NodeGet(Root(Pre.children), InsertPoint.path).text)

\* the first insert_node among the operations of the call
InsertIndex ==
  CHOOSE k \in 1..Len(lastCall.applied) :
    /\ lastCall.applied[k].type = "insert_node"
    /\ \A j \in 1..(k - 1) : lastCall.applied[j].type # "insert_node"

\* a path with the default affinity through a list of operations
RECURSIVE PathThrough(_, _)
PathThrough(path, ops) ==
  IF ops = <<>> THEN path
  ELSE PathThrough(transform(path, Head(ops), DefaultAffinity), Tail(ops))

\* pathRef.unref(): the path of the Point through the operations of splitNodes
RefPath ==
  Val(PathThrough(Some(InsertPoint.path),
                  SubSeq(lastCall.applied, 1, InsertIndex - 1)))

RECURSIVE BoldAt(_, _)
BoldAt(kids, paths) ==
  IF paths = <<>> THEN <<>>
  ELSE [i \in 1..Len(NodeGet(Root(kids), Head(paths)).text) |->
          NodeGet(Root(kids), Head(paths)).bold]
       \o BoldAt(kids, Tail(paths))

DocBold(kids) == BoldAt(kids, LeafPaths(Root(kids), <<>>))

\* the number of characters of the document before a point
CharsBefore(kids, pt) == Len(TextBefore(kids, pt))

\* the characters between the two points of a range
Selected(kids, range) ==
  {i \in 1..Len(DocText(kids)) :
     \/ /\ CharsBefore(kids, range.anchor) < i
        /\ i <= CharsBefore(kids, range.focus)
     \/ /\ CharsBefore(kids, range.focus) < i
        /\ i <= CharsBefore(kids, range.anchor)}

\* both points of the range lie in text leaves of the tree
InText(kids, range) ==
  \A pt \in {range.anchor, range.focus} :
    /\ isText(NodeGet(Root(kids), pt.path))
    /\ pt.offset <= Len(NodeGet(Root(kids), pt.path).text)

\* the step is a call of the handler kind as a whole
StepOf(kind) ==
  /\ lastCall'.kind = kind
  /\ lastCall'.pre = Some(Snapshot)
  /\ ~lastCall'.threw

CallLoc ==
  IF lastCall.args.at.kind # "undefined" THEN lastCall.args.at
  ELSE IF Pre.selection = NULL THEN NoLoc
  ELSE RangeLoc(Val(Pre.selection))

NoopCall ==
  \/ /\ lastCall.kind = "splitNodes"
     /\ \/ CallLoc.anchor.offset = 0
        \/ CallLoc.anchor.offset =
             Len(NodeGet(Root(Pre.children), CallLoc.anchor.path).text)
  \/ /\ lastCall.kind = "setNode"
     /\ \/ CallLoc.kind = "null"
        \/ CallLoc.kind = "range" /\ CallLoc.anchor = CallLoc.focus

C17_NoopLeavesEditorAlone ==
  NoopCall =>
    /\ lastCall.applied = <<>>
    /\ ~lastCall.threw
    /\ children = Pre.children
    /\ selection = Pre.selection
    /\ operations = Pre.operations
    /\ dirtyPaths = Pre.dirtyPaths

(***************************************************************************)
(* C21: while every operation applied was valid for the tree, every path    *)
(* reference that Path.transform has rebased, and every pending dirty path, *)
(* has non-negative components only.                                        *)
(***************************************************************************)
NonNegative(path) == \A k \in 1..Len(path) : path[k] >= 0

C21_PathsStayNonNegative ==
  ~notify.threw =>
    /\ \A i \in 1..Len(pathRefs) :
         pathRefs[i].current # NULL => NonNegative(Val(pathRefs[i].current))
    /\ \A i \in 1..Len(dirtyPaths) : NonNegative(dirtyPaths[i])

(***************************************************************************)
(* C22: a path at q, below q, at a later sibling of q or below one, rebased *)
(* through insert_node at q and then remove_node at q, or (forward          *)
(* affinity) through split_node at q and then merge_node at Path.next(q),   *)
(* is the path it was.                                                      *)
(***************************************************************************)
\* p is q, a later sibling of q, or a descendant of one of the two
AtOrAfter(q, p) ==
  /\ Len(p) >= Len(q)
  /\ Front(q) = SubSeq(p, 1, Len(q) - 1)
  /\ q[Len(q)] <= p[Len(q)]

C22_InverseRestoresPath ==
  (/\ rebase.kind = "inverse"
   /\ AtOrAfter(rebase.op.path, Val(rebase.path))
   /\ rebase.op.type = "split_node" => affinityOf(rebase.affinity) = "forward")
    => rebase.result = rebase.path

(***************************************************************************)
(* C23: after normalizeNode has filled an empty Element at path P, the      *)
(* selection is the caret at offset 0 of the new leaf at P.concat(0) and    *)
(* marks is null, whatever the selection and the pending mark were.         *)
(***************************************************************************)
\* normalizeNode was called on an Element without children
FilledElement ==
  /\ lastCall.kind = "normalizeNode"
  /\ NodeGet(Root(Pre.children), NormalizedPath).kind = "element"
  /\ Len(NodeGet(Root(Pre.children), NormalizedPath).children) = 0

C23_FillSelectsNewLeaf ==
  FilledElement =>
    /\ ~lastCall.threw
    /\ Len(NodeGet(Root(children), NormalizedPath).children) = 1
    /\ NodeGet(Root(children), Append(NormalizedPath, 0)).text = <<>>
    /\ selection = Some(Collapsed(Point(Append(NormalizedPath, 0), 0)))
    /\ marks = NULL

\* a caret in the first leaf and a pending mark before the call
C23_Witness ==
  /\ FilledElement
  /\ Pre.selection = Some(Collapsed(Point(<<0>>, 1)))
  /\ Pre.marks # NULL
  /\ selection = Some(Collapsed(Point(<<1, 0>>, 0)))
  /\ marks = NULL

====
